---- MODULE Spec2Model ----
(***************************************************************************)
(* Model of fhir_parser: FHIRLoader (fhirloader.py), the cache manager     *)
(* `load` and the archive normaliser `expand`.                             *)
(*                                                                         *)
(* Strings are modelled as sequences of tokens: a token is either the      *)
(* separator "/" , a file-name suffix (".zip", ".info") or a path segment  *)
(* that contains no separator.  String operations of the code (startswith, *)
(* slicing, rstrip, pathlib's parts) are modelled on these sequences.      *)
(***************************************************************************)
EXTENDS Naturals, Sequences, FiniteSets, TLC

VARIABLES
    cache,        \* the cache directory on disk: files and directories
    pc,           \* position of the current load call
    force_download, force_cache,   \* arguments of the current load call
    idx,          \* position of the loop over `needs` (1-based)
    uses_cache,   \* local variable uses_cache of load
    error,        \* the exception a call ended with
    cache0,       \* history: the cache as it was when the call started
    downloads,    \* history: downloader invocations of this call, per file
    extractions,  \* history: expand invocations of this call, per file
    deletions,    \* history: rmtree invocations of this call
    examined,     \* history: manifest entries examined by the loop, in order
    prev,         \* history: how the previous call ended, and its downloads
    calls,        \* number of load calls started
    archive,      \* expand: the members of the ZIP file given to expand
    written,      \* expand: what expand wrote under the target directory
    epc,          \* expand: position of the expand call
    ig_files,     \* add_igs_to_spec: the parsed JSON of each file of ig_files
    write_unittests, \* spec.settings.WRITE_UNITTESTS
    ipc,          \* position of the add_igs_to_spec call
    fidx,         \* position of the loop over ig_files (1-based)
    resource_queue, \* the work queue
    profiles,     \* the list of StructureDefinition records
    valuesets,    \* spec.valuesets: url -> the record the value set was built from
    codesystems,  \* spec.codesystems: url -> the record the code system was built from
    warnings,     \* what LOGGER.warning was called with, in order
    pidx,         \* position of the second pass in profiles (1-based)
    current,      \* the profile _process_profile returned, awaiting finalize
    ierror,       \* the exception add_igs_to_spec ended with
    dispatched,   \* history: the records given to the type dispatch, in order
    events        \* history: calls on the external model in the second pass

loadVars == <<cache, pc, force_download, force_cache, idx, uses_cache, error,
              cache0, downloads, extractions, deletions, examined, prev, calls>>
expandVars == <<archive, written, epc>>
igVars == <<ig_files, write_unittests, ipc, fidx, resource_queue, profiles,
            valuesets, codesystems, warnings, pidx, current, ierror,
            dispatched, events>>
vars == <<loadVars, expandVars, igVars>>

(***************************************************************************)
(* Bounds of the model.                                                    *)
(***************************************************************************)
MaxCalls == 2      \* load calls in one behaviour
MaxDepth == 3      \* path segments of an archive member's name
MaxEntries == 2    \* members of an archive
MaxRecords == 3    \* resource records in the files given to add_igs_to_spec,
                   \* records nested in Bundles counted

(***************************************************************************)
(* Strings and paths.                                                      *)
(***************************************************************************)
Sep == "/"
\* segment names: at the top level two ordinary names and the noise name;
\* below it a name equal to a top-level one and the noise name
Segs == {"r", "a", "__MACOSX"}
InnerSegs == {"r", "__MACOSX"}
NoisePrefix == <<"__MACOSX", Sep>>

\* str.startswith
StartsWith(s, p) == Len(s) >= Len(p) /\ SubSeq(s, 1, Len(p)) = p

\* a slip: s[n-1:], the slice starts one place early
DropFirstOffByOne(s, n) == SubSeq(s, n, Len(s))

\* s[n:]
DropFirst(s, n) == SubSeq(s, n + 1, Len(s))

\* str.rstrip('/')
RECURSIVE RStripSep(_)
RStripSep(s) ==
    IF s # <<>> /\ s[Len(s)] = Sep THEN RStripSep(SubSeq(s, 1, Len(s) - 1)) ELSE s

IsSegment(t) == t # Sep

\* pathlib.Path(s).parts: the segments between separators, empty segments
\* dropped; a leading separator is the anchor and a part of its own
PathParts(s) ==
    IF s # <<>> /\ Head(s) = Sep
    THEN <<Sep>> \o SelectSeq(Tail(s), IsSegment)
    ELSE SelectSeq(s, IsSegment)

\* ZipInfo.is_dir(): the name ends with the separator
IsDir(filename) == filename # <<>> /\ filename[Len(filename)] = Sep

\* the proper, non-empty prefixes of a path: the parent directories that
\* mkdir(parents=True) / os.makedirs create
Parents(path) == {SubSeq(path, 1, n) : n \in 1..(Len(path) - 1)}

\* outpath.mkdir(parents=True, exist_ok=True)
MkdirP(src, path) ==
    {[src |-> src, path |-> q, kind |-> "dir"] : q \in Parents(path) \cup {path}}

\* outpath.parent.mkdir(parents=True, exist_ok=True); open(outpath, 'wb')
WriteFile(src, path) ==
    {[src |-> src, path |-> q, kind |-> "dir"] : q \in Parents(path)}
      \cup {[src |-> src, path |-> path, kind |-> "file"]}

(***************************************************************************)
(* FHIRLoader.expand.  An archive is the set of its members' names; what   *)
(* expand does is the set of writes [src, path, kind]: member src made     *)
(* path (relative to target) a file or a directory.                        *)
(***************************************************************************)
\* a slip: the noise members are not filtered out before the roots are found
RealMembersUnfiltered(all_members) == all_members

\* real_members: the members outside the noise prefix
RealMembers(all_members) ==
    {m \in all_members : ~StartsWith(m, NoisePrefix)}

\* roots: the first path part of every real member whose name is not blank
\* (names hold no white space: a blank name is the empty one)
Roots(real_members) ==
    {PathParts(m)[1] : m \in {x \in real_members : x # <<>>}}

\* a slip: the root is stripped whenever there is any root
SingleRootAny(roots) == Cardinality(roots) >= 1

\* the branch taken: exactly one root
SingleRoot(roots) == Cardinality(roots) = 1

\* root = roots.pop().rstrip('/') + '/'
RootPrefix(roots) == RStripSep(<<CHOOSE r \in roots : TRUE>>) \o <<Sep>>

\* a slip: the member is written at its whole archive path, root included
StripMemberKeepRoot(m, root) ==
    IF ~StartsWith(m, root) THEN {}
    ELSE LET inner_path == PathParts(m)
         IN  IF IsDir(m) THEN MkdirP(m, inner_path) ELSE WriteFile(m, inner_path)

\* one iteration of the loop that strips the root
StripMember(m, root) ==
    IF ~StartsWith(m, root) THEN {}
    ELSE LET inner_path == PathParts(DropFirst(m, Len(root)))
         IN  IF inner_path = <<>> THEN {}
             ELSE IF IsDir(m) THEN MkdirP(m, inner_path)
                  ELSE WriteFile(m, inner_path)

\* ZipFile.extractall(target, members): every member at its own path
ExtractMember(m) ==
    LET arcname == SelectSeq(m, IsSegment)
    IN  IF arcname = <<>> THEN {}
        ELSE IF IsDir(m) THEN MkdirP(m, arcname) ELSE WriteFile(m, arcname)

MembersToExtract(all_members) ==
    {m \in all_members : ~StartsWith(m, NoisePrefix)}

ExtractAll(members) == UNION {ExtractMember(m) : m \in members}

Expand(all_members) ==
    LET real_members == RealMembers(all_members)
        roots == Roots(real_members)
    IN  IF SingleRoot(roots)
        THEN UNION {StripMember(m, RootPrefix(roots)) : m \in real_members}
        ELSE ExtractAll(MembersToExtract(all_members))

(***************************************************************************)
(* The archives expand is given: members named by 1..MaxDepth segments,    *)
(* directories with a trailing separator, no member a file and a directory *)
(* at once.                                                                *)
(***************************************************************************)
RECURSIVE Join(_)
Join(parts) ==
    IF Len(parts) <= 1 THEN parts
    ELSE <<Head(parts), Sep>> \o Join(Tail(parts))

SegmentLists ==
    UNION {{p \in [1..n -> Segs] : \A i \in 2..n : p[i] \in InnerSegs} : n \in 1..MaxDepth}

Filenames ==
    {Join(p) : p \in SegmentLists} \cup {Join(p) \o <<Sep>> : p \in SegmentLists}

IsPrefix(p, q) == Len(p) <= Len(q) /\ SubSeq(q, 1, Len(p)) = p

\* no file member lies on the path of another member
Compatible(f, g) ==
    /\ ~IsDir(f) => ~IsPrefix(SelectSeq(f, IsSegment), SelectSeq(g, IsSegment))
    /\ ~IsDir(g) => ~IsPrefix(SelectSeq(g, IsSegment), SelectSeq(f, IsSegment))

ExpandInit ==
    /\ archive = {}
    /\ written = {}
    /\ epc = "build"

\* the archive gets one more member
AddMember(f) ==
    /\ UNCHANGED <<loadVars, igVars>>
    /\ epc = "build"
    /\ Cardinality(archive) < MaxEntries
    /\ f \notin archive
    /\ \A g \in archive : Compatible(f, g)
    /\ archive' = archive \cup {f}
    /\ UNCHANGED <<written, epc>>

\* FHIRLoader.expand(filepath, target) on an empty target directory
ExpandCall ==
    /\ UNCHANGED <<loadVars, igVars>>
    /\ epc = "build"
    /\ written' = Expand(archive)
    /\ epc' = "done"
    /\ UNCHANGED archive

(***************************************************************************)
(* FHIRLoader.load.  The cache directory is                                *)
(*   files : file name -> [present, valid, members]   the downloaded files *)
(*   dirs  : directory -> [present, content]          "." is the cache     *)
(*           directory itself, the others its expansion subdirectories;    *)
(*           content is the set of [path, kind] extracted into it.         *)
(***************************************************************************)
None == "None"
VersionInfo == <<"version", ".info">>
ExamplesZip == <<"examples-json", ".zip">>
DefinitionsZip == <<"definitions.json", ".zip">>

\* the class attribute `needs`, in the order the dict is iterated
needs ==
    << [local |-> VersionInfo,    remote |-> VersionInfo,    expand_dir |-> None],
       [local |-> ExamplesZip,    remote |-> ExamplesZip,    expand_dir |-> "examples"],
       [local |-> DefinitionsZip, remote |-> DefinitionsZip, expand_dir |-> "definitions"] >>

Locals == {needs[i].local : i \in DOMAIN needs}
Dirs == {"."} \cup ({needs[i].expand_dir : i \in DOMAIN needs} \ {None})

\* ".zip" == filename[-4:]
IsZipName(filename) == filename[Len(filename)] = ".zip"

NoFile == [present |-> FALSE, valid |-> FALSE, members |-> {}]
NoDir == [present |-> FALSE, content |-> {}]
EmptyDir == [present |-> TRUE, content |-> {}]
TextFile == [present |-> TRUE, valid |-> FALSE, members |-> {}]
CorruptZip == [present |-> TRUE, valid |-> FALSE, members |-> {}]
ZipFile(members) == [present |-> TRUE, valid |-> TRUE, members |-> members]

\* what the specification server may serve as an archive
ServerArchives ==
    { {<<"r", Sep>>, <<"r", Sep, "a">>},
      {<<"r", Sep, "a">>, <<"a", Sep, "r", Sep>>},
      {<<"r", Sep, "r", Sep, "a">>, <<"__MACOSX", Sep, "a">>} }

\* the files the downloader may deliver for a remote name
Served(remote) ==
    IF IsZipName(remote)
    THEN {ZipFile(a) : a \in ServerArchives} \cup {CorruptZip}
    ELSE {TextFile}

AllServed == UNION {Served(needs[i].remote) : i \in DOMAIN needs}

\* the [path, kind] entries expand leaves under its target
Extracted(members) == {[path |-> w.path, kind |-> w.kind] : w \in Expand(members)}

Missing == [files |-> [f \in Locals |-> NoFile], dirs |-> [d \in Dirs |-> NoDir]]

\* self.cache.exists()
CacheExists(c) == c.dirs["."].present

\* a slip: the cache directory is tested, not the file in it
PathExistsOfCache(c, local) == CacheExists(c)

\* (self.cache / local).exists()
PathExists(c, local) == c.files[local].present

\* a slip: only the files of the cache directory are removed
RmtreeFilesOnly(c) == [c EXCEPT !.files = [f \in Locals |-> NoFile]]

\* shutil.rmtree(self.cache)
Rmtree(c) == Missing

\* self.cache.mkdir(parents=True)
MkdirCache(c) == [c EXCEPT !.dirs["."] = EmptyDir]

\* target = self.cache, or self.cache / expand_dir
Target(expand_dir) == IF expand_dir # None THEN expand_dir ELSE "."

\* target.mkdir() if it is absent (also expand's target.mkdir(exist_ok=True))
MkdirTarget(c, target) ==
    IF c.dirs[target].present THEN c ELSE [c EXCEPT !.dirs[target] = EmptyDir]

\* fhirspec.download(url, download_directory=self.cache): the file is written
\* into the cache directory under the remote name
Download(c, remote, file) == [c EXCEPT !.files[remote] = file]

\* a slip: the archive is expanded into the cache directory, expand_dir ignored
ExpandIntoCacheRoot(c, target, members) ==
    [MkdirTarget(c, target) EXCEPT !.dirs["."].content = @ \cup Extracted(members)]

\* FHIRLoader.expand(filepath, target) seen from the cache directory
ExpandInto(c, target, members) ==
    LET d == MkdirTarget(c, target)
    IN  [d EXCEPT !.dirs[target].content = @ \cup Extracted(members)]

\* the caches a call may find: absent, or holding any subset of the manifest's
\* files; an archive in it is readable and is either expanded into its
\* subdirectory or not expanded at all (placed by hand, or an earlier run
\* was interrupted before extraction)
Plausible(c) ==
    \A i \in DOMAIN needs :
        LET n == needs[i]
        IN  IF c.files[n.local].present /\ IsZipName(n.local)
            THEN /\ c.files[n.local].valid
                 /\ c.dirs[Target(n.expand_dir)] \in
                       {NoDir, [present |-> TRUE,
                                content |-> Extracted(c.files[n.local].members)]}
            ELSE n.expand_dir # None => c.dirs[n.expand_dir] = NoDir

InitialCaches ==
    {Missing} \cup
    {c \in [files : [Locals -> {NoFile, TextFile} \cup {ZipFile(a) : a \in ServerArchives}],
            dirs : [Dirs -> {NoDir, EmptyDir} \cup
                             {[present |-> TRUE, content |-> Extracted(a)] : a \in ServerArchives}]] :
        /\ c.dirs["."] = EmptyDir
        /\ c.files[VersionInfo] \in {NoFile, TextFile}
        /\ \A f \in Locals \ {VersionInfo} : c.files[f] # TextFile
        /\ Plausible(c)}

NoError == [kind |-> "none", arg |-> <<>>]

LoadInit ==
    /\ cache \in InitialCaches
    /\ pc = "idle"
    /\ force_download = FALSE
    /\ force_cache = FALSE
    /\ idx = 1
    /\ uses_cache = FALSE
    /\ error = NoError
    /\ cache0 = cache
    /\ downloads = [f \in Locals |-> 0]
    /\ extractions = [f \in Locals |-> 0]
    /\ deletions = 0
    /\ examined = <<>>
    /\ prev = [pc |-> "none", fetched |-> 0]
    /\ calls = 0

\* a slip: the flags are not checked against each other
FlagsNeverConflict(fd, fc) == FALSE

\* if force_download: assert not force_cache
FlagsConflict(fd, fc) == fd /\ fc

\* if self.cache.exists() and force_download
MustRemove(c, fd) == CacheExists(c) /\ fd

\* if not path_.exists(): if force_cache: raise
MustRaiseMissing(c, local, fc) == ~PathExists(c, local) /\ fc

\* a slip: a file is fetched whether or not it is in the cache
MustFetchAlways(c, local, fc) == ~fc

\* a slip: a missing file is fetched although the cache is forced
MustFetchForced(c, local, fc) == ~PathExists(c, local)

\* if not path_.exists(): ... filepath = self.download(remote)
MustFetch(c, local, fc) == ~PathExists(c, local) /\ ~fc

\* downloader invocations of the current call
RECURSIVE FetchedUpTo(_)
FetchedUpTo(i) == IF i = 0 THEN 0 ELSE downloads[needs[i].remote] + FetchedUpTo(i - 1)
Fetched == FetchedUpTo(Len(needs))

\* load(force_download=fd, force_cache=fc) is called
Call(fd, fc) ==
    /\ UNCHANGED <<expandVars, igVars>>
    /\ pc \in {"idle", "returned", "raised"}
    /\ calls < MaxCalls
    /\ calls' = calls + 1
    /\ prev' = [pc |-> IF pc = "idle" THEN "none" ELSE pc, fetched |-> Fetched]
    /\ force_download' = fd
    /\ force_cache' = fc
    /\ cache0' = cache
    /\ downloads' = [f \in Locals |-> 0]
    /\ extractions' = [f \in Locals |-> 0]
    /\ deletions' = 0
    /\ examined' = <<>>
    /\ idx' = 1
    /\ uses_cache' = FALSE
    /\ IF FlagsConflict(fd, fc)
       THEN pc' = "raised" /\ error' = [kind |-> "AssertionError", arg |-> <<>>]
       ELSE pc' = "rmtree" /\ error' = NoError
    /\ UNCHANGED cache

\* lines 35-38: a forced download removes the cache directory
RemoveCache ==
    /\ UNCHANGED <<expandVars, igVars>>
    /\ pc = "rmtree"
    /\ IF MustRemove(cache, force_download)
       THEN cache' = Rmtree(cache) /\ deletions' = deletions + 1
       ELSE UNCHANGED <<cache, deletions>>
    /\ pc' = "mkdir"
    /\ UNCHANGED <<force_download, force_cache, idx, uses_cache, error, cache0,
                   downloads, extractions, examined, prev, calls>>

\* lines 40-44: the cache directory is created if absent
MakeCache ==
    /\ UNCHANGED <<expandVars, igVars>>
    /\ pc = "mkdir"
    /\ cache' = IF ~CacheExists(cache) THEN MkdirCache(cache) ELSE cache
    /\ uses_cache' = FALSE
    /\ pc' = "loop"
    /\ UNCHANGED <<force_download, force_cache, idx, error, cache0,
                   downloads, extractions, deletions, examined, prev, calls>>

\* line 66: the file is in the cache
UseCached ==
    /\ UNCHANGED <<expandVars, igVars>>
    /\ pc = "loop"
    /\ idx \in DOMAIN needs
    /\ PathExists(cache, needs[idx].local)
    /\ uses_cache' = TRUE
    /\ examined' = Append(examined, needs[idx].local)
    /\ idx' = idx + 1
    /\ UNCHANGED <<cache, pc, force_download, force_cache, error, cache0,
                   downloads, extractions, deletions, prev, calls>>

\* line 50: the file is missing and the cache is forced
RaiseMissing ==
    /\ UNCHANGED <<expandVars, igVars>>
    /\ pc = "loop"
    /\ idx \in DOMAIN needs
    /\ MustRaiseMissing(cache, needs[idx].local, force_cache)
    /\ examined' = Append(examined, needs[idx].local)
    /\ pc' = "raised"
    /\ error' = [kind |-> "Exception", arg |-> needs[idx].local]
    /\ UNCHANGED <<cache, force_download, force_cache, idx, uses_cache, cache0,
                   downloads, extractions, deletions, prev, calls>>

\* line 53: the downloader is called and raises
FetchFails ==
    /\ UNCHANGED <<expandVars, igVars>>
    /\ pc = "loop"
    /\ idx \in DOMAIN needs
    /\ MustFetch(cache, needs[idx].local, force_cache)
    /\ examined' = Append(examined, needs[idx].local)
    /\ downloads' = [downloads EXCEPT ![needs[idx].remote] = @ + 1]
    /\ pc' = "raised"
    /\ error' = [kind |-> "DownloadError", arg |-> needs[idx].remote]
    /\ UNCHANGED <<cache, force_download, force_cache, idx, uses_cache, cache0,
                   extractions, deletions, prev, calls>>

\* lines 53-64: the downloader delivers `file`; an archive is expanded
Fetch(file) ==
    /\ UNCHANGED <<expandVars, igVars>>
    /\ pc = "loop"
    /\ idx \in DOMAIN needs
    /\ MustFetch(cache, needs[idx].local, force_cache)
    /\ file \in Served(needs[idx].remote)
    /\ LET n == needs[idx]
           filename == n.remote
           got == Download(cache, n.remote, file)
           target == Target(n.expand_dir)
       IN  /\ examined' = Append(examined, n.local)
           /\ downloads' = [downloads EXCEPT ![n.remote] = @ + 1]
           /\ IF ~IsZipName(filename)
              THEN /\ cache' = got
                   /\ idx' = idx + 1
                   /\ UNCHANGED <<pc, error, extractions>>
              ELSE /\ extractions' = [extractions EXCEPT ![filename] = @ + 1]
                   /\ IF file.valid
                      THEN /\ cache' = ExpandInto(MkdirTarget(got, target), target,
                                                  file.members)
                           /\ idx' = idx + 1
                           /\ UNCHANGED <<pc, error>>
                      ELSE \* zipfile.ZipFile(filepath) raises BadZipFile
                           /\ cache' = MkdirTarget(got, target)
                           /\ pc' = "raised"
                           /\ error' = [kind |-> "BadZipFile", arg |-> filename]
                           /\ UNCHANGED idx
    /\ UNCHANGED <<force_download, force_cache, uses_cache, cache0, deletions,
                   prev, calls>>

\* line 71: return self.cache
Return ==
    /\ UNCHANGED <<expandVars, igVars>>
    /\ pc = "loop"
    /\ idx \notin DOMAIN needs
    /\ pc' = "returned"
    /\ UNCHANGED <<cache, force_download, force_cache, idx, uses_cache, error,
                   cache0, downloads, extractions, deletions, examined, prev, calls>>

(***************************************************************************)
(* ig.py: add_igs_to_spec and _process_profile.  A parsed JSON document is *)
(* a function from its keys to their values, so that `"k" in parsed` is    *)
(* k \in DOMAIN parsed.  URLs are sequences of tokens.                     *)
(***************************************************************************)
VsUrl == <<"http://x/vs/", "1">>
CsUrl == <<"http://x/cs/", "1">>
DenyUrl == <<"http://x/sd/", "SimpleQuantity">>
OkUrl == <<"http://x/sd/", "Profile">>

\* fhirspec.UNSUPPORTED_PROFILES
UNSUPPORTED_PROFILES == {"SimpleQuantity"}

\* the records the files hold, Bundles apart
LeafRecords ==
    { [url |-> VsUrl],
      [resourceType |-> "Patient"],
      [resourceType |-> "ValueSet", url |-> VsUrl, name |-> "A"],
      [resourceType |-> "ValueSet", url |-> VsUrl, name |-> "B"],
      [resourceType |-> "CodeSystem", url |-> CsUrl, content |-> "complete",
       concept |-> <<"c">>],
      [resourceType |-> "CodeSystem", url |-> CsUrl, content |-> "complete",
       concept |-> <<>>],
      [resourceType |-> "CodeSystem", url |-> CsUrl, content |-> "not-present"],
      [resourceType |-> "StructureDefinition", url |-> DenyUrl],
      [resourceType |-> "StructureDefinition", url |-> DenyUrl, name |-> "Q"],
      [resourceType |-> "StructureDefinition", url |-> OkUrl, name |-> ""],
      [resourceType |-> "StructureDefinition", url |-> OkUrl, name |-> "P"],
      [resourceType |-> "StructureDefinition", url |-> OkUrl] }

BundleWithoutEntry == [resourceType |-> "Bundle"]
\* the entry list that carries the records as its resources
RECURSIVE EntriesOf(_)
EntriesOf(records) ==
    IF records = <<>> THEN <<>>
    ELSE <<[resource |-> Head(records)]>> \o EntriesOf(Tail(records))
BundleOf(records) == [resourceType |-> "Bundle", entry |-> EntriesOf(records)]

\* the records a file or a Bundle entry can hold without holding another one
OneRecord == LeafRecords \cup {BundleWithoutEntry}

\* how many records a sequence of records holds, the nested ones counted
RECURSIVE RecordCount(_)
RecordCount(records) ==
    IF records = <<>> THEN 0
    ELSE 1 + RecordCount(Tail(records))
           + (IF "entry" \in DOMAIN Head(records)
              THEN RecordCount([i \in 1..Len(Head(records).entry) |->
                                   Head(records).entry[i].resource])
              ELSE 0)

EmptyMap == [u \in {} |-> <<>>]
NoIgError == [kind |-> "none", arg |-> ""]
Event(op, k, ok) == [op |-> op, k |-> k, ok |-> ok]

\* add_igs_to_spec is not running
IgIdle ==
    /\ ig_files = <<>>
    /\ write_unittests = FALSE
    /\ ipc = "idle"
    /\ fidx = 1
    /\ resource_queue = <<>>
    /\ profiles = <<>>
    /\ valuesets = EmptyMap
    /\ codesystems = EmptyMap
    /\ warnings = <<>>
    /\ pidx = 1
    /\ current = 0
    /\ ierror = NoIgError
    /\ dispatched = <<>>
    /\ events = <<>>

\* no file has been written yet
IgInit ==
    /\ ig_files = <<>>
    /\ write_unittests = FALSE
    /\ ipc = "build"
    /\ fidx = 1
    /\ resource_queue = <<>>
    /\ profiles = <<>>
    /\ valuesets = EmptyMap
    /\ codesystems = EmptyMap
    /\ warnings = <<>>
    /\ pidx = 1
    /\ current = 0
    /\ ierror = NoIgError
    /\ dispatched = <<>>
    /\ events = <<>>

\* one more file, holding the record rec
AddFile(rec) ==
    /\ UNCHANGED <<loadVars, expandVars>>
    /\ ipc = "build"
    /\ RecordCount(ig_files) < MaxRecords
    /\ rec \in OneRecord
    /\ ig_files' = Append(ig_files, rec)
    /\ UNCHANGED <<write_unittests, ipc, fidx, resource_queue, profiles, valuesets,
                   codesystems, warnings, pidx, current, ierror, dispatched, events>>

\* the records of the last k files become the entries of one Bundle in one file
WrapFiles(k) ==
    /\ UNCHANGED <<loadVars, expandVars>>
    /\ ipc = "build"
    /\ RecordCount(ig_files) < MaxRecords
    /\ k \in 0..Len(ig_files)
    /\ ig_files' = Append(SubSeq(ig_files, 1, Len(ig_files) - k),
                          BundleOf(SubSeq(ig_files, Len(ig_files) - k + 1,
                                          Len(ig_files))))
    /\ UNCHANGED <<write_unittests, ipc, fidx, resource_queue, profiles, valuesets,
                   codesystems, warnings, pidx, current, ierror, dispatched, events>>

\* add_igs_to_spec(spec, ig_files) is called: lines 33-34
CallAddIgs ==
    /\ UNCHANGED <<loadVars, expandVars>>
    /\ ipc = "build"
    /\ ipc' = "read"
    /\ UNCHANGED <<ig_files, write_unittests, fidx, resource_queue, profiles, valuesets,
                   codesystems, warnings, pidx, current, ierror, dispatched, events>>

\* "resourceType" not in parsed
LacksType(parsed) == "resourceType" \notin DOMAIN parsed

\* the Bundle is put back behind its entries
PutBack(queue, parsed) ==
    queue \o [i \in 1..Len(parsed.entry) |-> parsed.entry[i].resource] \o <<parsed>>

\* for e in parsed['entry']: resource_queue.put(e['resource'])
PutEntries(queue, parsed) ==
    queue \o [i \in 1..Len(parsed.entry) |-> parsed.entry[i].resource]

\* d.setdefault(k, v): the first value under a key is kept
PutIfAbsent(d, k, v) == [x \in DOMAIN d \cup {k} |-> IF x \in DOMAIN d THEN d[x] ELSE v]

\* d[k] = v
Put(d, k, v) == [x \in DOMAIN d \cup {k} |-> IF x = k THEN v ELSE d[x]]

\* "content" in parsed and "concept" in parsed
StoresCodeSystem(parsed) == "content" \in DOMAIN parsed /\ "concept" \in DOMAIN parsed

\* no pattern is searched for
UnsupportedNever(resource) ==
    \E pattern \in {} : \E i \in 1..Len(resource.url) : resource.url[i] = pattern

\* re.search(pattern, profile.url) is not None for some pattern
Unsupported(resource) ==
    \E pattern \in UNSUPPORTED_PROFILES :
        \E i \in 1..Len(resource.url) : resource.url[i] = pattern

\* the name is only looked for, an empty one passes
HasNameKey(resource) == "name" \in DOMAIN resource

\* not (not profile or not profile.name)
HasName(resource) == "name" \in DOMAIN resource /\ resource.name # ""

\* lines 35-41, one file: a document with a resourceType is put on the queue
ReadFile ==
    /\ UNCHANGED <<loadVars, expandVars>>
    /\ ipc = "read"
    /\ fidx \in DOMAIN ig_files
    /\ ~LacksType(ig_files[fidx])
    /\ resource_queue' = Append(resource_queue, ig_files[fidx])
    /\ fidx' = fidx + 1
    /\ UNCHANGED <<ig_files, write_unittests, ipc, profiles, valuesets, codesystems,
                   warnings, pidx, current, ierror, dispatched, events>>

\* lines 38-40, one file: a document without resourceType is warned about
WarnFile ==
    /\ UNCHANGED <<loadVars, expandVars>>
    /\ ipc = "read"
    /\ fidx \in DOMAIN ig_files
    /\ LacksType(ig_files[fidx])
    /\ warnings' = Append(warnings, [msg |-> "Expecting resourceType", rec |-> ig_files[fidx]])
    /\ fidx' = fidx + 1
    /\ UNCHANGED <<ig_files, write_unittests, ipc, resource_queue, profiles, valuesets,
                   codesystems, pidx, current, ierror, dispatched, events>>

\* the loop over ig_files is over: line 42 is reached
StartLoop ==
    /\ UNCHANGED <<loadVars, expandVars>>
    /\ ipc = "read"
    /\ fidx \notin DOMAIN ig_files
    /\ ipc' = "loop"
    /\ UNCHANGED <<ig_files, write_unittests, fidx, resource_queue, profiles, valuesets,
                   codesystems, warnings, pidx, current, ierror, dispatched, events>>

\* line 42-43: while not resource_queue.empty(): parsed = resource_queue.get()
Dequeued(rt) ==
    /\ ipc = "loop"
    /\ resource_queue # <<>>
    /\ ~LacksType(Head(resource_queue))
    /\ IF rt = "other"
       THEN Head(resource_queue).resourceType \notin
                {"Bundle", "StructureDefinition", "ValueSet", "CodeSystem"}
       ELSE Head(resource_queue).resourceType = rt

\* line 44: parsed['resourceType'] of a record that has none raises KeyError
RaiseKeyError ==
    /\ UNCHANGED <<loadVars, expandVars>>
    /\ ipc = "loop"
    /\ resource_queue # <<>>
    /\ LacksType(Head(resource_queue))
    /\ resource_queue' = Tail(resource_queue)
    /\ ipc' = "aborted"
    /\ ierror' = [kind |-> "KeyError", arg |-> "resourceType"]
    /\ UNCHANGED <<ig_files, write_unittests, fidx, profiles, valuesets, codesystems,
                   warnings, pidx, current, dispatched, events>>

\* lines 45-48: the entries of a Bundle are put on the queue
ExpandBundle ==
    /\ UNCHANGED <<loadVars, expandVars>>
    /\ Dequeued("Bundle")
    /\ resource_queue' =
          IF "entry" \in DOMAIN Head(resource_queue)
          THEN PutEntries(Tail(resource_queue), Head(resource_queue))
          ELSE Tail(resource_queue)
    /\ UNCHANGED <<ig_files, write_unittests, ipc, fidx, profiles, valuesets,
                   codesystems, warnings, pidx, current, ierror, dispatched, events>>

\* lines 49-50
CollectProfile ==
    /\ UNCHANGED <<loadVars, expandVars>>
    /\ Dequeued("StructureDefinition")
    /\ resource_queue' = Tail(resource_queue)
    /\ dispatched' = Append(dispatched, Head(resource_queue))
    /\ profiles' = Append(profiles, Head(resource_queue))
    /\ UNCHANGED <<ig_files, write_unittests, ipc, fidx, valuesets, codesystems,
                   warnings, pidx, current, ierror, events>>

\* lines 51-53
StoreValueSet ==
    /\ UNCHANGED <<loadVars, expandVars>>
    /\ Dequeued("ValueSet")
    /\ resource_queue' = Tail(resource_queue)
    /\ dispatched' = Append(dispatched, Head(resource_queue))
    /\ IF "url" \in DOMAIN Head(resource_queue)
       THEN /\ valuesets' = Put(valuesets, Head(resource_queue).url, Head(resource_queue))
            /\ UNCHANGED <<ipc, ierror>>
       ELSE /\ ipc' = "aborted"
            /\ ierror' = [kind |-> "AssertionError", arg |-> "url"]
            /\ UNCHANGED valuesets
    /\ UNCHANGED <<ig_files, write_unittests, fidx, profiles, codesystems, warnings,
                   pidx, current, events>>

\* lines 54-59
ClassifyCodeSystem ==
    /\ UNCHANGED <<loadVars, expandVars>>
    /\ Dequeued("CodeSystem")
    /\ resource_queue' = Tail(resource_queue)
    /\ dispatched' = Append(dispatched, Head(resource_queue))
    /\ IF "url" \notin DOMAIN Head(resource_queue)
       THEN /\ ipc' = "aborted"
            /\ ierror' = [kind |-> "AssertionError", arg |-> "url"]
            /\ UNCHANGED <<codesystems, warnings>>
       ELSE /\ UNCHANGED <<ipc, ierror>>
            /\ IF StoresCodeSystem(Head(resource_queue))
               THEN /\ codesystems' = Put(codesystems, Head(resource_queue).url,
                                          Head(resource_queue))
                    /\ UNCHANGED warnings
               ELSE /\ warnings' = Append(warnings, [msg |-> "CodeSystem with no concepts",
                                                     rec |-> Head(resource_queue)])
                    /\ UNCHANGED codesystems
    /\ UNCHANGED <<ig_files, write_unittests, fidx, profiles, valuesets, pidx, current,
                   events>>

\* lines 60-63
WarnUnknown ==
    /\ UNCHANGED <<loadVars, expandVars>>
    /\ Dequeued("other")
    /\ resource_queue' = Tail(resource_queue)
    /\ dispatched' = Append(dispatched, Head(resource_queue))
    /\ warnings' = Append(warnings, [msg |-> "Unknown resourceType",
                                     rec |-> Head(resource_queue)])
    /\ UNCHANGED <<ig_files, write_unittests, ipc, fidx, profiles, valuesets,
                   codesystems, pidx, current, ierror, events>>

\* the loop is left whatever the queue holds
ExitLoopEarly ==
    /\ UNCHANGED <<loadVars, expandVars>>
    /\ ipc = "loop"
    /\ ipc' = "profiles"
    /\ UNCHANGED <<ig_files, write_unittests, fidx, resource_queue, profiles, valuesets,
                   codesystems, warnings, pidx, current, ierror, dispatched, events>>

\* line 42 with the queue empty: the loop is left (lines 65-71)
ExitLoop ==
    /\ UNCHANGED <<loadVars, expandVars>>
    /\ ipc = "loop"
    /\ resource_queue = <<>>
    /\ ipc' = "profiles"
    /\ UNCHANGED <<ig_files, write_unittests, fidx, resource_queue, profiles, valuesets,
                   codesystems, warnings, pidx, current, ierror, dispatched, events>>

\* line 71: the lazy map asks _process_profile for the next record of profiles
NextProfile ==
    /\ ipc = "profiles"
    /\ current = 0
    /\ pidx \in DOMAIN profiles

\* _process_profile, lines 18-23: the URL matches a pattern, None is returned
SkipUnsupported ==
    /\ UNCHANGED <<loadVars, expandVars>>
    /\ NextProfile
    /\ Unsupported(profiles[pidx])
    /\ events' = Append(events, Event("construct", pidx, TRUE))
    /\ pidx' = pidx + 1
    /\ UNCHANGED <<ig_files, write_unittests, ipc, fidx, resource_queue, profiles,
                   valuesets, codesystems, warnings, current, ierror, dispatched>>

\* _process_profile, lines 24-25: no name
RaiseNoName ==
    /\ UNCHANGED <<loadVars, expandVars>>
    /\ NextProfile
    /\ ~Unsupported(profiles[pidx])
    /\ ~HasName(profiles[pidx])
    /\ events' = Append(events, Event("construct", pidx, TRUE))
    /\ ipc' = "aborted"
    /\ ierror' = [kind |-> "Exception", arg |-> "No name for profile"]
    /\ UNCHANGED <<ig_files, write_unittests, fidx, resource_queue, profiles, valuesets,
                   codesystems, warnings, pidx, current, dispatched>>

\* the profile is processed whatever spec.found_profile answers
AdmissionUnchecked(k, accept) ==
    <<Event("construct", k, TRUE), Event("found_profile", k, accept),
      Event("process_profile", k, TRUE), Event("targetname", k, TRUE)>>

\* what _process_profile calls on the external model, lines 26-30, when
\* spec.found_profile answers `accept`
Admission(k, accept) ==
    <<Event("construct", k, TRUE), Event("found_profile", k, accept)>> \o
    (IF accept
     THEN <<Event("process_profile", k, TRUE), Event("targetname", k, TRUE)>>
     ELSE <<>>)

\* _process_profile, lines 26-30: spec.found_profile answers `accept`
FoundProfile(accept) ==
    /\ UNCHANGED <<loadVars, expandVars>>
    /\ NextProfile
    /\ ~Unsupported(profiles[pidx])
    /\ HasName(profiles[pidx])
    /\ events' = events \o Admission(pidx, accept)
    /\ IF accept
       THEN current' = pidx /\ UNCHANGED pidx
       ELSE pidx' = pidx + 1 /\ UNCHANGED current
    /\ UNCHANGED <<ig_files, write_unittests, ipc, fidx, resource_queue, profiles,
                   valuesets, codesystems, warnings, ierror, dispatched>>

\* lines 72-75: the body of the for loop, for the profile just returned
Finalize ==
    /\ UNCHANGED <<loadVars, expandVars>>
    /\ ipc = "profiles"
    /\ current # 0
    /\ events' = Append(events, Event("finalize", current, TRUE))
    /\ current' = 0
    /\ pidx' = pidx + 1
    /\ UNCHANGED <<ig_files, write_unittests, ipc, fidx, resource_queue, profiles,
                   valuesets, codesystems, warnings, ierror, dispatched>>

\* lines 77-78: the profiles are exhausted, spec.settings.WRITE_UNITTESTS is
\* read and is `setting`
Finish(setting) ==
    /\ UNCHANGED <<loadVars, expandVars>>
    /\ ipc = "profiles"
    /\ current = 0
    /\ pidx \notin DOMAIN profiles
    /\ write_unittests' = setting
    /\ events' = IF setting
                 THEN Append(events, Event("parse_unit_tests", 0, TRUE))
                 ELSE events
    /\ ipc' = "done"
    /\ UNCHANGED <<ig_files, fidx, resource_queue, profiles, valuesets,
                   codesystems, warnings, pidx, current, ierror, dispatched>>

Init == LoadInit /\ ExpandInit /\ IgIdle

Next ==
    \/ \E fd \in BOOLEAN, fc \in BOOLEAN : Call(fd, fc)
    \/ RemoveCache
    \/ MakeCache
    \/ UseCached
    \/ RaiseMissing
    \/ FetchFails
    \/ \E file \in AllServed : Fetch(file)
    \/ Return

\* load, called up to MaxCalls times on a cache directory
Spec == Init /\ [][Next]_vars

SpecExpandInit == cache = Missing /\ LoadInit /\ ExpandInit /\ IgIdle

SpecExpandNext ==
    \/ \E f \in Filenames : AddMember(f)
    \/ ExpandCall

\* expand, called on an archive
SpecExpand == SpecExpandInit /\ [][SpecExpandNext]_vars

SpecIgInit == cache = Missing /\ LoadInit /\ ExpandInit /\ IgInit

SpecIgNext ==
    \/ \E rec \in OneRecord : AddFile(rec)
    \/ \E k \in 0..MaxRecords : WrapFiles(k)
    \/ CallAddIgs
    \/ ReadFile
    \/ WarnFile
    \/ StartLoop
    \/ RaiseKeyError
    \/ ExpandBundle
    \/ CollectProfile
    \/ StoreValueSet
    \/ ClassifyCodeSystem
    \/ WarnUnknown
    \/ ExitLoop
    \/ SkipUnsupported
    \/ RaiseNoName
    \/ \E accept \in BOOLEAN : FoundProfile(accept)
    \/ Finalize
    \/ \E setting \in BOOLEAN : Finish(setting)

\* add_igs_to_spec, called on the parsed files
SpecIg == SpecIgInit /\ [][SpecIgNext]_vars

\* one record for each way through the files loop, the work-queue loop and
\* _process_profile
LoopRecords ==
    { [url |-> VsUrl],
      [resourceType |-> "Patient"],
      [resourceType |-> "ValueSet", url |-> VsUrl, name |-> "A"],
      [resourceType |-> "CodeSystem", url |-> CsUrl, content |-> "complete",
       concept |-> <<"c">>],
      [resourceType |-> "StructureDefinition", url |-> DenyUrl],
      [resourceType |-> "StructureDefinition", url |-> OkUrl, name |-> "P"],
      [resourceType |-> "StructureDefinition", url |-> OkUrl],
      BundleWithoutEntry }

SpecLoopNext ==
    \/ \E rec \in LoopRecords : AddFile(rec)
    \/ \E k \in 0..MaxRecords : WrapFiles(k)
    \/ CallAddIgs
    \/ ReadFile
    \/ WarnFile
    \/ StartLoop
    \/ RaiseKeyError
    \/ ExpandBundle
    \/ CollectProfile
    \/ StoreValueSet
    \/ ClassifyCodeSystem
    \/ WarnUnknown
    \/ ExitLoop
    \/ SkipUnsupported
    \/ RaiseNoName
    \/ \E accept \in BOOLEAN : FoundProfile(accept)
    \/ Finalize
    \/ \E setting \in BOOLEAN : Finish(setting)

\* add_igs_to_spec runs on, a single thread with nothing to wait for, called
\* on files of Bundles of these records
SpecLoopFair == SpecIgInit /\ [][SpecLoopNext]_vars /\ WF_vars(SpecLoopNext)

(***************************************************************************)
(* Properties of load.                                                     *)
(***************************************************************************)
Started == pc # "idle"
Default == ~force_download /\ ~force_cache
AllPresent(c) == \A i \in DOMAIN needs : PathExists(c, needs[i].local)
NoFetchNoExtract == \A f \in Locals : downloads[f] = 0 /\ extractions[f] = 0

\* the archive of entry n is expanded in cache c: its subdirectory exists and
\* holds everything expand extracts from it
Expanded(c, n) ==
    /\ c.dirs[Target(n.expand_dir)].present
    /\ Extracted(c.files[n.local].members) \subseteq c.dirs[Target(n.expand_dir)].content

\* C1 as stated: when load has returned, every file of `needs` is in the
\* cache directory and every archive with an expansion subdirectory is
\* expanded there.
C1_ReturnedCacheExpanded ==
    pc = "returned" =>
        \A i \in DOMAIN needs :
            /\ PathExists(cache, needs[i].local)
            /\ needs[i].expand_dir # None => Expanded(cache, needs[i])

\* C1 amended: when load has returned, every file of `needs` is in the cache
\* directory, and every archive fetched by this call is readable and expanded
\* into its subdirectory; an archive found in the cache is not expanded.
C1_ReturnedFetchedExpanded ==
    pc = "returned" =>
        \A i \in DOMAIN needs :
            /\ PathExists(cache, needs[i].local)
            /\ (downloads[needs[i].remote] > 0 /\ needs[i].expand_dir # None) =>
                   /\ cache.files[needs[i].local].valid
                   /\ Expanded(cache, needs[i])
            /\ (downloads[needs[i].remote] = 0 /\ needs[i].expand_dir # None) =>
                   cache.dirs[needs[i].expand_dir] = cache0.dirs[needs[i].expand_dir]

\* a call returned that fetched and expanded one archive and found the other
\* in the cache, not expanded
C1_Witness ==
    /\ pc = "returned"
    /\ downloads[ExamplesZip] = 1
    /\ cache.dirs["examples"].content # {}
    /\ downloads[DefinitionsZip] = 0
    /\ ~cache.dirs["definitions"].present

\* C2: with default flags, a call that finds every file of `needs` in the
\* cache, or that follows a call that returned, never calls the downloader or
\* expand, removes nothing, changes nothing in the cache and does not fail.
C2_FullCacheNoFetch ==
    (Started /\ Default /\ (AllPresent(cache0) \/ prev.pc = "returned")) =>
        /\ NoFetchNoExtract
        /\ deletions = 0
        /\ cache = cache0
        /\ pc # "raised"

\* a default call returned right after a call that fetched all three files
C2_Witness ==
    /\ pc = "returned"
    /\ Default
    /\ prev = [pc |-> "returned", fetched |-> 3]

\* C3: with default flags, a file that was in the cache when the call started
\* is never fetched and stays as it was, with its expansion subdirectory; a
\* file that was absent is fetched at most once, and exactly once when the
\* call has returned.
C3_FetchExactlyTheAbsent ==
    (Started /\ Default) =>
        \A i \in DOMAIN needs :
            IF PathExists(cache0, needs[i].local)
            THEN /\ downloads[needs[i].remote] = 0
                 /\ extractions[needs[i].remote] = 0
                 /\ cache.files[needs[i].local] = cache0.files[needs[i].local]
                 /\ cache.dirs[Target(needs[i].expand_dir)].content
                        = cache0.dirs[Target(needs[i].expand_dir)].content
            ELSE /\ downloads[needs[i].remote] <= 1
                 /\ pc = "returned" => downloads[needs[i].remote] = 1

\* a default call returned on a cache that held the second file only
C3_Witness ==
    /\ pc = "returned"
    /\ Default
    /\ ~PathExists(cache0, VersionInfo)
    /\ PathExists(cache0, ExamplesZip)
    /\ ~PathExists(cache0, DefinitionsZip)

\* C4: with force_download alone, a cache directory that existed is removed
\* once, in full, before the loop examines anything; from then on whatever
\* the cache holds was fetched and extracted by this call, every entry
\* examined went through the downloader, uses_cache stays unset, and a call
\* that returned fetched every entry once.
C4_ForcedDownloadReusesNothing ==
    (Started /\ force_download /\ ~force_cache) =>
        /\ uses_cache = FALSE
        /\ pc = "rmtree" => examined = <<>> /\ cache = cache0
        /\ pc # "rmtree" =>
              /\ deletions = (IF CacheExists(cache0) THEN 1 ELSE 0)
              /\ pc = "mkdir" => cache = Missing
              /\ \A i \in DOMAIN needs :
                    /\ PathExists(cache, needs[i].local) => downloads[needs[i].remote] = 1
                    /\ needs[i].expand_dir # None =>
                          cache.dirs[needs[i].expand_dir].content =
                              Extracted(cache.files[needs[i].local].members)
              /\ \A k \in 1..Len(examined) : downloads[examined[k]] = 1
              /\ pc = "returned" => \A f \in Locals : downloads[f] = 1

\* a forced download returned on a cache that held everything
C4_Witness ==
    /\ pc = "returned"
    /\ force_download
    /\ AllPresent(cache0)
    /\ \A i \in DOMAIN needs : needs[i].expand_dir # None => Expanded(cache0, needs[i])

\* C5: a call with both flags set has failed on the assertion, and nothing
\* has happened: the cache directory is as it was (neither removed nor
\* created), nothing was examined, fetched or extracted.
C5_BothFlagsFailFirst ==
    (Started /\ force_download /\ force_cache) =>
        /\ pc = "raised"
        /\ error.kind = "AssertionError"
        /\ cache = cache0
        /\ deletions = 0
        /\ examined = <<>>
        /\ NoFetchNoExtract

\* a call with both flags failed on a cache directory that holds everything
C5_Witness ==
    /\ pc = "raised"
    /\ force_download /\ force_cache
    /\ AllPresent(cache)

\* the first entry of `needs` whose file is not in cache c
FirstAbsent(c) ==
    CHOOSE k \in DOMAIN needs :
        /\ ~PathExists(c, needs[k].local)
        /\ \A j \in 1..(k - 1) : PathExists(c, needs[j].local)

\* C6: with force_cache alone, the downloader and expand are never called; a
\* call that failed stopped at the first entry, in the order of `needs`,
\* whose file is absent, examined nothing after it, and its error names that
\* file; a call that returned found every file in the cache.
C6_CacheOnlyFailsFast ==
    (Started /\ force_cache /\ ~force_download) =>
        /\ NoFetchNoExtract
        /\ pc = "returned" => AllPresent(cache0)
        /\ pc = "raised" =>
              /\ ~AllPresent(cache0)
              /\ error = [kind |-> "Exception", arg |-> needs[FirstAbsent(cache0)].local]
              /\ examined = [k \in 1..FirstAbsent(cache0) |-> needs[k].local]

\* a cache-only call failed at the second entry, the third being absent too
C6_Witness ==
    /\ pc = "raised"
    /\ force_cache /\ ~force_download
    /\ error.arg = ExamplesZip
    /\ PathExists(cache0, VersionInfo)
    /\ ~PathExists(cache0, DefinitionsZip)

(***************************************************************************)
(* Properties of expand.  They are stated on the members' names, not with  *)
(* the operators that model the code.                                      *)
(***************************************************************************)
\* the path of a member: its segments
Segments(f) == SelectSeq(f, LAMBDA t : t # Sep)
\* a member under the noise prefix __MACOSX/
Noise(f) == Len(f) >= 2 /\ f[1] = "__MACOSX" /\ f[2] = Sep
Real(A) == {f \in A : ~Noise(f)}
\* the top-level segments of the members that are not noise
Tops(A) == {f[1] : f \in Real(A)}
\* the name begins with r/
UnderRoot(f, r) == Len(f) >= 2 /\ f[1] = r /\ f[2] = Sep
\* the members that are not noise all lie under one top-level segment r/
SingleRootedAt(A, r) == Real(A) # {} /\ \A f \in Real(A) : UnderRoot(f, r)
SingleRooted(A) == \E r \in Segs : SingleRootedAt(A, r)
KindOf(f) == IF f[Len(f)] = Sep THEN "dir" ELSE "file"
WrittenAt(f, p) == [src |-> f, path |-> p, kind |-> KindOf(f)] \in written

\* C7: after expand of a single-root archive, every file member root/<p> is
\* a file at <p> under the target, every directory member root/<d>/ is a
\* directory at <d>, and the member that is the wrapper root/ itself has
\* written nothing.
C7_SingleRootStripped ==
    (epc = "done" /\ SingleRooted(archive)) =>
        \A f \in Real(archive) :
            IF Len(Segments(f)) = 1
            THEN \A w \in written : w.src # f
            ELSE WrittenAt(f, Tail(Segments(f)))

\* expand has run on an archive of the wrapper root/ and a file two levels
\* below it
C7_Witness ==
    /\ epc = "done"
    /\ archive = {<<"r", Sep>>, <<"r", Sep, "r", Sep, "__MACOSX">>}
    /\ written # {}

\* C8 as stated: after expand of a single-root archive, no path created
\* under the target has root as one of its components.
C8_NoRootComponent ==
    (epc = "done" /\ SingleRooted(archive)) =>
        \A r \in Segs : SingleRootedAt(archive, r) =>
            \A w \in written : \A k \in 1..Len(w.path) : w.path[k] # r

\* C8 amended: after expand of a single-root archive, every path created
\* under the target is the path of the member that made it, or of a parent
\* directory of it, with exactly the first component (the wrapper) removed:
\* component k of the path is component k+1 of the member's name.
C8_OnlyWrapperRemoved ==
    (epc = "done" /\ SingleRooted(archive)) =>
        \A w \in written :
            /\ w.path # <<>>
            /\ Len(w.path) < Len(Segments(w.src))
            /\ \A k \in 1..Len(w.path) : w.path[k] = Segments(w.src)[k + 1]

\* expand has run on root/root/a: root is a component of a created path
C8_Witness ==
    /\ epc = "done"
    /\ SingleRootedAt(archive, "r")
    /\ \E w \in written : w.src = <<"r", Sep, "r", Sep, "r">> /\ w.path = <<"r", "r">>

\* C9: after expand of an archive whose members outside the noise prefix
\* have two or more top-level segments, every such member is under the
\* target at its own archive path, nothing stripped, and every path created
\* is such a path or a parent of one; with no such member nothing is written.
C9_MultiRootVerbatim ==
    (epc = "done" /\ Cardinality(Tops(archive)) # 1) =>
        /\ \A f \in Real(archive) : WrittenAt(f, Segments(f))
        /\ \A w \in written :
              /\ w.src \in Real(archive)
              /\ w.path # <<>>
              /\ w.path = SubSeq(Segments(w.src), 1, Len(w.path))
        /\ Real(archive) = {} => written = {}

\* expand has run on an archive with members under r/ and under a/
C9_Witness ==
    /\ epc = "done"
    /\ Tops(archive) = {"r", "a"}
    /\ \E f \in archive : Len(Segments(f)) >= 2 /\ WrittenAt(f, Segments(f))

\* C10: nothing expand writes comes from a member under __MACOSX/, in either
\* branch; and an archive of members under one root plus members under
\* __MACOSX/ is expanded as a single-root archive, the root stripped.
C10_NoiseNeverWritten ==
    epc = "done" =>
        /\ \A w \in written : ~Noise(w.src)
        /\ (SingleRooted(archive) /\ archive # Real(archive)) =>
              \A f \in Real(archive) :
                  /\ Len(Segments(f)) >= 2 => WrittenAt(f, Tail(Segments(f)))
                  /\ \A w \in written : w.src = f => Len(w.path) < Len(Segments(f))

\* expand has run on an archive of a file under r/ and a file under __MACOSX/r/
C10_Witness ==
    /\ epc = "done"
    /\ archive = {<<"r", Sep, "r">>, <<"__MACOSX", Sep, "r", Sep, "r">>}
    /\ written # {}

(***************************************************************************)
(* Properties of add_igs_to_spec                                           *)
(***************************************************************************)
IsBundle(rec) == "resourceType" \in DOMAIN rec /\ rec.resourceType = "Bundle"
Typed(rec) == "resourceType" \in DOMAIN rec
Payloads(bundle) ==
    IF "entry" \in DOMAIN bundle
    THEN [i \in 1..Len(bundle.entry) |-> bundle.entry[i].resource]
    ELSE <<>>

\* the records of a forest that are not Bundles, each as often as it occurs
RECURSIVE LeavesOf(_)
LeavesOf(records) ==
    IF records = <<>> THEN <<>>
    ELSE (IF IsBundle(Head(records))
          THEN LeavesOf(Payloads(Head(records)))
          ELSE <<Head(records)>>) \o LeavesOf(Tail(records))

\* the Bundles of a forest, the nested ones too
RECURSIVE BundlesOf(_)
BundlesOf(records) ==
    IF records = <<>> THEN {}
    ELSE (IF IsBundle(Head(records))
          THEN {Head(records)} \cup BundlesOf(Payloads(Head(records)))
          ELSE {}) \cup BundlesOf(Tail(records))

\* how deep the Bundles of a forest nest
RECURSIVE DepthOf(_)
DepthOf(records) ==
    IF records = <<>> THEN 0
    ELSE LET h == IF IsBundle(Head(records))
                  THEN 1 + DepthOf(Payloads(Head(records)))
                  ELSE 0
             t == DepthOf(Tail(records))
         IN IF h > t THEN h ELSE t

TypedLeaves == SelectSeq(LeavesOf(ig_files), Typed)
Count(seq, x) == Cardinality({i \in DOMAIN seq : seq[i] = x})
Range(seq) == {seq[i] : i \in DOMAIN seq}
Stored == Range(profiles) \cup {valuesets[u] : u \in DOMAIN valuesets}
              \cup {codesystems[u] : u \in DOMAIN codesystems}
\* add_igs_to_spec is past its work-queue loop, or has raised
LoopOver == ipc \in {"profiles", "done", "aborted"}

\* C11: no Bundle is dispatched to the type classification or stored; no
\* record is dispatched more often than it occurs among the records reachable
\* through Bundle entries; and once add_igs_to_spec has left the loop, every
\* record that is not a Bundle and carries a resourceType has been dispatched
\* exactly as often as it occurs in the input forest.
C11_Flattened ==
    /\ \A r \in Range(dispatched) \cup Stored : ~IsBundle(r)
    /\ \A r \in Range(dispatched) : Count(dispatched, r) <= Count(TypedLeaves, r)
    /\ LoopOver =>
          \A r \in Range(TypedLeaves) : Count(dispatched, r) = Count(TypedLeaves, r)

\* one pass of the work-queue loop: the record at the head of a queue that is
\* not empty is removed, and only the resources of its entries are added
DequeueStep ==
    /\ resource_queue # <<>>
    /\ resource_queue' = Tail(resource_queue) \o
                            (IF IsBundle(Head(resource_queue))
                             THEN Payloads(Head(resource_queue))
                             ELSE <<>>)

\* C12: the work-queue loop terminates on every input: each pass takes one
\* record from a queue that is not empty and adds only its direct entries,
\* the loop goes on to the second pass only with the queue empty, and a run
\* that has entered the loop eventually is out of it.
C12_LoopTerminates ==
    /\ [][(ipc = "loop" /\ ipc' = "loop") => DequeueStep]_vars
    /\ [][(ipc = "loop" /\ ipc' = "profiles") =>
             (resource_queue = <<>> /\ resource_queue' = <<>>)]_vars
    /\ [](ipc = "loop" => <>(ipc \in {"profiles", "done", "aborted"}))

\* the loop has been left with every record of a two-level nesting of Bundles
\* dispatched
C12_Witness ==
    /\ ipc = "profiles"
    /\ DepthOf(ig_files) >= 2
    /\ Len(dispatched) >= 1
    /\ resource_queue = <<>>

Untyped == SelectSeq(LeavesOf(ig_files), LAMBDA r : ~Typed(r))
WarnedUntyped == SelectSeq(warnings, LAMBDA w : w.msg = "Expecting resourceType")

\* C13: a record without resourceType, in a file or as the resource of a
\* Bundle entry, is never put on the queue and never classified, the run does
\* not abort on it, and once the loop is over each such record has been
\* warned about.
C13_UntypedDropped ==
    /\ \A r \in Range(resource_queue) \cup Range(dispatched) : Typed(r)
    /\ ierror.kind # "KeyError"
    /\ ipc \in {"profiles", "done"} =>
          \A r \in Range(Untyped) :
              Cardinality({i \in DOMAIN WarnedUntyped : WarnedUntyped[i].rec = r})
                  = Count(Untyped, r)

OfType(rec, rt) == Typed(rec) /\ rec.resourceType = rt
ValueSetsSeen == SelectSeq(dispatched, LAMBDA r : OfType(r, "ValueSet"))
LastWith(seq, u) ==
    seq[CHOOSE i \in DOMAIN seq :
            /\ seq[i].url = u
            /\ \A j \in DOMAIN seq : seq[j].url = u => j <= i]

\* C14: spec.valuesets has exactly the urls of the ValueSets classified so
\* far as its keys, under each url the ValueSet of that url classified last,
\* and no ValueSet has caused a warning or an error.
C14_ValueSetsLastWins ==
    /\ DOMAIN valuesets = {r.url : r \in Range(ValueSetsSeen)}
    /\ \A u \in DOMAIN valuesets : valuesets[u] = LastWith(ValueSetsSeen, u)
    /\ \A w \in Range(warnings) : ~OfType(w.rec, "ValueSet")
    /\ ierror.kind # "AssertionError"

\* two different ValueSets of one url have been classified, the loop is over
C14_Witness ==
    /\ ipc = "profiles"
    /\ Len(ValueSetsSeen) = 2
    /\ ValueSetsSeen[1].url = ValueSetsSeen[2].url
    /\ ValueSetsSeen[1] # ValueSetsSeen[2]
    /\ valuesets[VsUrl] = ValueSetsSeen[2]

HasConcepts(rec) ==
    "content" \in DOMAIN rec /\ "concept" \in DOMAIN rec /\ rec.concept # <<>>
StoredCodeSystems == {codesystems[u] : u \in DOMAIN codesystems}
WarnedNoConcepts ==
    {w.rec : w \in {x \in Range(warnings) : x.msg = "CodeSystem with no concepts"}}

\* C15: every CodeSystem in spec.codesystems carries content and a concept
\* listing that is not empty, and every CodeSystem classified without such a
\* listing is absent from spec.codesystems and has its 'no concepts' warning.
C15_OnlyWithConcepts ==
    /\ \A r \in StoredCodeSystems : HasConcepts(r)
    /\ \A r \in Range(dispatched) :
          (OfType(r, "CodeSystem") /\ ~HasConcepts(r)) =>
              (r \notin StoredCodeSystems /\ r \in WarnedNoConcepts)

(***************************************************************************)
(* Properties of the second pass                                           *)
(***************************************************************************)
Denylisted(rec) == \E i \in DOMAIN rec.url : rec.url[i] \in UNSUPPORTED_PROFILES
Named(rec) == "name" \in DOMAIN rec /\ rec.name # ""
\* the calls made for candidate k, in order
CallsFor(k) == SelectSeq(events, LAMBDA e : e.k = k)
Ops(k) == [i \in DOMAIN CallsFor(k) |-> CallsFor(k)[i].op]
Candidates == DOMAIN profiles

\* C16: for a candidate whose URL matches a denylist pattern nothing but the
\* construction of the profile ever happens: no found_profile, no
\* process_profile, no target name, no finalize; and it does not raise the
\* missing-name error either, named or not.
C16_DenylistedNeverAdmitted ==
    \A k \in Candidates :
        Denylisted(profiles[k]) =>
            /\ \A i \in DOMAIN Ops(k) : Ops(k)[i] = "construct"
            /\ current # k
            /\ (ierror.kind = "Exception" => pidx # k)

\* the second pass has gone past a denylisted candidate without a name and
\* has run to its end
C16_Witness ==
    /\ ipc = "done"
    /\ \E k \in Candidates :
          /\ Denylisted(profiles[k])
          /\ ~Named(profiles[k])
          /\ Ops(k) = <<"construct">>
    /\ \E k \in Candidates : Denylisted(profiles[k]) /\ Named(profiles[k])

Nameless(k) == ~Denylisted(profiles[k]) /\ ~Named(profiles[k])

\* C17: a candidate that is not denylisted and has no name, or an empty one,
\* is never passed to found_profile; the second pass never goes past it;
\* once it has been constructed the run has aborted with the missing-name
\* error, and no candidate after it has been constructed, processed or
\* finalized.
C17_NamelessAborts ==
    \A k \in Candidates :
        Nameless(k) =>
            /\ Ops(k) \in {<<>>, <<"construct">>}
            /\ pidx <= k
            /\ ipc # "done"
            /\ Ops(k) # <<>> =>
                  /\ ipc = "aborted"
                  /\ ierror.kind = "Exception"
                  /\ \A j \in Candidates : j > k => Ops(j) = <<>>

\* the run has aborted on the second of three candidates: the first was
\* finalized, the third was never constructed
C17_Witness ==
    /\ ipc = "aborted"
    /\ ierror.kind = "Exception"
    /\ Len(profiles) = 3
    /\ Nameless(2)
    /\ Ops(1) = <<"construct", "found_profile", "process_profile", "targetname",
                  "finalize">>
    /\ Ops(2) = <<"construct">>
    /\ Ops(3) = <<>>

\* the first pass has dealt with the record: a ValueSet is in spec.valuesets
\* under its url, a CodeSystem is in spec.codesystems under its url or has had
\* its warning
Registered(rec) ==
    /\ OfType(rec, "ValueSet") => rec.url \in DOMAIN valuesets
    /\ OfType(rec, "CodeSystem") =>
          (rec.url \in DOMAIN codesystems \/ rec \in WarnedNoConcepts)

\* C18: while files are read and the queue is worked off nothing of the
\* second pass has happened; and once the first candidate has been
\* constructed, every file has been read, the queue is empty, and every
\* ValueSet and CodeSystem of the input, nested or not, is registered.
C18_TwoPasses ==
    /\ ipc \in {"build", "read", "loop"} => (events = <<>> /\ current = 0 /\ pidx = 1)
    /\ events # <<>> =>
          /\ resource_queue = <<>>
          /\ fidx \notin DOMAIN ig_files
          /\ \A r \in Range(LeavesOf(ig_files)) : Registered(r)

\* a candidate has been processed; the input is a StructureDefinition file
\* followed by a file of a Bundle that holds a ValueSet
C18_Witness ==
    /\ Len(ig_files) = 2
    /\ OfType(ig_files[1], "StructureDefinition")
    /\ IsBundle(ig_files[2])
    /\ Len(Payloads(ig_files[2])) = 1
    /\ OfType(Payloads(ig_files[2])[1], "ValueSet")
    /\ \E i \in DOMAIN events : events[i].op = "process_profile"
    /\ VsUrl \in DOMAIN valuesets

Lifecycle == <<"construct", "found_profile", "process_profile", "targetname", "finalize">>
StartOf(s, t) == Len(s) <= Len(t) /\ s = SubSeq(t, 1, Len(s))
Accepted(k) == \E i \in DOMAIN CallsFor(k) :
                   CallsFor(k)[i].op = "found_profile" /\ CallsFor(k)[i].ok
Rejected(k) == \E i \in DOMAIN CallsFor(k) :
                   CallsFor(k)[i].op = "found_profile" /\ ~CallsFor(k)[i].ok
Has(k, op) == \E i \in DOMAIN Ops(k) : Ops(k)[i] = op
\* the second pass is done with candidate k
Past(k) == pidx > k
UnitTests == {i \in DOMAIN events : events[i].op = "parse_unit_tests"}

\* C19: the calls made for a candidate are a beginning of construct,
\* found_profile, process_profile, target name, finalize, so none happens
\* twice or out of order; process_profile happens exactly when found_profile
\* accepted, and finalize follows it by the time the pass moves on; a
\* candidate that found_profile or the denylist rejected stops before
\* process_profile; unit tests are generated at most once, only with
\* WRITE_UNITTESTS set, as the last call, with every accepted candidate
\* finalized.
C19_ProfileLifecycle ==
    /\ \A k \in Candidates :
          /\ StartOf(Ops(k), Lifecycle)
          /\ Has(k, "process_profile") <=> Accepted(k)
          /\ Has(k, "finalize") <=> (Accepted(k) /\ Past(k))
          /\ (Rejected(k) \/ Denylisted(profiles[k])) =>
                (~Has(k, "process_profile") /\ ~Has(k, "finalize"))
    /\ Cardinality(UnitTests) <= 1
    /\ \A i \in UnitTests :
          /\ i = Len(events)
          /\ write_unittests
          /\ ipc = "done"
          /\ \A k \in Candidates : Accepted(k) => Has(k, "finalize")
    /\ (ipc = "done" /\ write_unittests) => UnitTests # {}

\* the run is over, unit tests generated: one candidate was accepted and
\* finalized, one rejected by found_profile, one by the denylist
C19_Witness ==
    /\ ipc = "done"
    /\ UnitTests # {}
    /\ \E k \in Candidates : Ops(k) = Lifecycle
    /\ \E k \in Candidates : Rejected(k)
    /\ \E k \in Candidates : Denylisted(profiles[k])

\* C20: after expand, every member that is a file and not noise has been
\* written as exactly one file under the target, at its path or at its path
\* without the wrapper; this includes the archive whose only member that is
\* not noise is one file at the top level.
C20_NoContentLost ==
    epc = "done" =>
        \A f \in Real(archive) :
            KindOf(f) = "file" =>
                /\ Cardinality({w \in written : w.src = f /\ w.kind = "file"}) = 1
                /\ \A w \in written :
                      (w.src = f /\ w.kind = "file") =>
                          w.path \in {Segments(f), Tail(Segments(f))}

====
